---- MODULE Spec2Model ----
(***************************************************************************)
(* Model of src/windows/capture.rs: the four GDI capture entry points      *)
(* (capture_monitor, capture_monitor_bgra_data, capture_window,            *)
(* capture_window_bgra_data), their helpers inner_capture_monitor,         *)
(* inne_capture_window, get_bgra_image_data and to_rgba_image.             *)
(*                                                                         *)
(* Spec follows one capture call at a time: every native call the code     *)
(* issues is one step; its outcome (success, failure, returned handle) is  *)
(* chosen nondeterministically, and `events` records the native calls      *)
(* issued by the call in progress and their outcomes, in order.            *)
(* SpecNorm follows the pixel loop of to_rgba_image over a buffer.         *)
(* SpecConc follows capture calls running on two threads.                  *)
(***************************************************************************)
EXTENDS Integers, Sequences, FiniteSets, TLC

VARIABLES
    pc,                 \* position of the call in progress
    entry,              \* entry point called
    os_major_version,   \* get_os_major_version(): cached per process
    overflow_checks,    \* build profile: TRUE = arithmetic overflow panics
    width, height,      \* dimensions used by the call
    acquired,           \* per handle: number of acquisitions in this call
    released,           \* per handle: number of releases in this call
    valid,              \* per handle: the native call returned a usable handle
    selected,           \* object currently selected in the off-screen DC
    previous_object,    \* value saved from SelectObject (window capture)
    is_success,         \* inne_capture_window's is_success
    buffer_size,        \* get_bgra_image_data's buffer_size (i32)
    buffer_len,         \* length of the returned buffer
    result,             \* outcome of the call
    events,             \* native calls issued by this call, in order
    native,             \* to_rgba_image: the buffer as extracted (BGRA bytes)
    image,              \* to_rgba_image: the buffer being converted in place
    norm_i,             \* to_rgba_image: index of the next 4-byte chunk
    norm_pc,            \* to_rgba_image: position in the pixel loop
    thr,                \* concurrent calls: per thread, the call's locals
    created,            \* concurrent calls: <<handle, call>> creations
    used,               \* concurrent calls: <<handle, call>> uses as target
    next_handle,        \* concurrent calls: next off-screen object
    calls_started       \* concurrent calls: number of calls started

vars == <<pc, entry, os_major_version, overflow_checks, width, height,
          acquired, released, valid, selected, previous_object, is_success,
          buffer_size, buffer_len, result, events,
          native, image, norm_i, norm_pc,
          thr, created, used, next_handle, calls_started>>

\* state of the pixel-level view of to_rgba_image
normVars == <<native, image, norm_i, norm_pc>>

\* state of the view of calls running on several threads
concVars == <<thr, created, used, next_handle, calls_started>>

\* what a step of the single capture call leaves alone
auxVars == <<normVars, concVars>>

\* threads that call the capture entry points
Threads == {1, 2}

\* a thread outside any capture call
IdleThread ==
    [pc |-> "idle", kind |-> "none", call |-> 0, mem |-> 0, bmp |-> 0,
     succ |-> FALSE]

----------------------------------------------------------------------------
(* Bounds of the model *)

MaxSmallDim == 2

\* monitor width/height arguments: small values and one whose product
\* width*height*4 does not fit an i32
MonitorDims == (1..MaxSmallDim) \cup {32768}

\* raw window rectangle sides (right-left, bottom-top)
RectDims == {1, 100, 200}

\* scale_factor as a fraction num/den: 1.0 and 0.5
ScaleFactors == {<<1, 1>>, <<1, 2>>}

OsVersions == {7, 8, 10}

----------------------------------------------------------------------------
(* i32 arithmetic *)

I32Max == 2147483647

I32Min == -I32Max - 1

\* a + b wrapped to 32 bits two's complement, without leaving the i32 range
\* in any intermediate value
WrapAdd(a, b) ==
    IF a > 0 /\ b > 0 /\ a > I32Max - b
    THEN (a - I32Max - 1) + (b - I32Max - 1)
    ELSE IF a < 0 /\ b < 0 /\ a < I32Min - b
    THEN (a + I32Max + 1) + (b + I32Max + 1)
    ELSE a + b

\* a * b wrapped to 32 bits, b >= 0 (binary multiplication)
RECURSIVE WrapMul(_, _)
WrapMul(a, b) ==
    IF b = 0 THEN 0
    ELSE LET h == WrapMul(a, b \div 2)
             d == WrapAdd(h, h)
         IN  IF b % 2 = 1 THEN WrapAdd(d, a) ELSE d

\* the exact product a * b of non-negative a, b does not fit an i32
MulOverflows(a, b) == a > 0 /\ b > 0 /\ a > I32Max \div b

\* width * height * 4 overflows at one of its two multiplications
SizeOverflows(w, h) ==
    MulOverflows(w, h) \/ (~MulOverflows(w, h) /\ MulOverflows(w * h, 4))

\* let buffer_size = width * height * 4;  (wrapping build)
BufferSizeWrapped(w, h) == WrapMul(WrapMul(w, h), 4)

\* len == w * h * 4 exactly, stated without computing the product
IsExactSize(len, w, h) ==
    /\ w > 0 /\ h > 0
    /\ len % 4 = 0
    /\ (len \div 4) % w = 0
    /\ (len \div 4) \div w = h

\* w * h * 4 <= len, stated without computing the product
FitsIn(len, w, h) == w = 0 \/ h = 0 \/ (len \div 4) \div w >= h

\* faulty variant: the rectangle side used unscaled
ScaleDim_Unscaled(raw, s) == raw

\* (raw as f32 * scale_factor) as i32, for the small raw values and the
\* dyadic scale factors used here (the f32 product is exact; the cast
\* truncates toward zero)
ScaleDim(raw, s) == (raw * s[1]) \div s[2]

----------------------------------------------------------------------------
(* Handles and event log *)

\* box_hdc_desktop_window / box_hdc_window, box_hdc_mem, box_h_bitmap
Handles == {"hdc_src", "hdc_mem", "h_bitmap"}

EntryPoints == {"capture_monitor_bgra_data", "capture_monitor",
                "capture_window", "capture_window_bgra_data"}

MonitorEntries == {"capture_monitor_bgra_data", "capture_monitor"}

WindowEntries == {"capture_window", "capture_window_bgra_data"}

RawEntries == {"capture_monitor_bgra_data", "capture_window_bgra_data"}

\* outcomes a native drawing call into the off-screen DC can report: it
\* cannot succeed on a null DC
DrawOutcomes == IF valid["hdc_mem"] THEN BOOLEAN ELSE {FALSE}

Ev(op, ok) == [op |-> op, ok |-> ok]

\* a native call that is passed a width and a height
EvDim(op, ok, w, h) == [op |-> op, ok |-> ok, w |-> w, h |-> h]

Acquire(h) == [acquired EXCEPT ![h] = @ + 1]

\* Drop of the boxed handles hs (a sequence, in drop order): each is released
\* by its Drop implementation (ReleaseDC / DeleteDC / DeleteObject)
RECURSIVE DropEvents(_)
DropEvents(hs) ==
    IF hs = <<>> THEN <<>>
    ELSE <<Ev("release_" \o Head(hs), TRUE)>> \o DropEvents(Tail(hs))

RECURSIVE DropCounts(_, _)
DropCounts(rel, hs) ==
    IF hs = <<>> THEN rel
    ELSE DropCounts([rel EXCEPT ![Head(hs)] = @ + 1], Tail(hs))

ZeroCounts == [h \in Handles |-> 0]

\* inner_capture_monitor returning Ok: box_hdc_mem and box_h_bitmap have moved
\* into the returned tuple; the remaining local is dropped
InnerMonitorOkDrops == <<"hdc_src">>

\* inner_capture_monitor leaving through BitBlt(..)?: locals are dropped in
\* reverse order of declaration
InnerMonitorErrDrops == <<"h_bitmap", "hdc_mem", "hdc_src">>

\* faulty variant: the window drawing surface is not released on this path
WindowRectErrDrops_Leak == <<>>

\* inne_capture_window leaving through get_window_rect(hwnd)?
WindowRectErrDrops == <<"hdc_src">>

\* faulty variant: the early return leaks the off-screen surfaces
WindowQueryErrDrops_Leak == <<"hdc_src">>

\* inne_capture_window leaving through DwmIsCompositionEnabled()?
WindowQueryErrDrops == <<"h_bitmap", "hdc_mem", "hdc_src">>

\* faulty variant: the boxes are not moved out, all three are dropped on return
InnerWindowOkDrops_All == <<"h_bitmap", "hdc_mem", "hdc_src">>

\* inne_capture_window returning Ok((width, height, box_hdc_mem, box_h_bitmap))
InnerWindowOkDrops == <<"hdc_src">>

\* faulty variant: a null handle is wrapped and used like any other
NullHandleIsFatal_Unchecked == FALSE

\* BoxHDC::new / BoxHBITMAP::new given a null handle: acquisition failure is
\* fatal for the capture call (the constructors return the box itself, not a
\* Result, so the failure leaves the call by unwinding)
NullHandleIsFatal == TRUE

\* boxes dropped when acquiring the off-screen drawing surface fails
CreateDcFatalDrops == <<"hdc_src">>

\* boxes dropped when acquiring the pixel surface fails
CreateBitmapFatalDrops == <<"hdc_mem", "hdc_src">>

\* get_bgra_image_data owns its parameters box_hdc_mem, box_h_bitmap: they
\* are dropped when it returns, in reverse order of declaration
GetBgraDrops == <<"h_bitmap", "hdc_mem">>

----------------------------------------------------------------------------
InitCall ==
    /\ pc = "idle"
    /\ entry = "none"
    /\ os_major_version \in OsVersions
    /\ overflow_checks \in BOOLEAN
    /\ width = 0
    /\ height = 0
    /\ acquired = ZeroCounts
    /\ released = ZeroCounts
    /\ valid = [h \in Handles |-> FALSE]
    /\ selected = "none"
    /\ previous_object = "none"
    /\ is_success = FALSE
    /\ buffer_size = 0
    /\ buffer_len = 0
    /\ result = "none"
    /\ events = <<>>

\* no pixel loop is being followed
NormIdle ==
    /\ native = <<>>
    /\ image = <<>>
    /\ norm_i = 0
    /\ norm_pc = "off"

\* no thread is inside a capture call
ConcIdle ==
    /\ thr = [t \in Threads |-> IdleThread]
    /\ created = {}
    /\ used = {}
    /\ next_handle = 1
    /\ calls_started = 0

Init == InitCall /\ NormIdle /\ ConcIdle

\* A caller invokes capture_monitor / capture_monitor_bgra_data(x, y, w, h)
CallMonitor ==
    /\ pc = "idle"
    /\ UNCHANGED auxVars
    /\ \E e \in MonitorEntries, w \in MonitorDims, h \in MonitorDims :
        /\ entry' = e
        /\ width' = w
        /\ height' = h
    /\ pc' = "m_from"
    /\ acquired' = ZeroCounts
    /\ released' = ZeroCounts
    /\ valid' = [h \in Handles |-> FALSE]
    /\ selected' = "none"
    /\ previous_object' = "none"
    /\ is_success' = FALSE
    /\ buffer_size' = 0
    /\ buffer_len' = 0
    /\ result' = "none"
    /\ events' = <<>>
    /\ UNCHANGED <<os_major_version, overflow_checks>>

\* let box_hdc_desktop_window = BoxHDC::from(GetDesktopWindow());
MonitorGetDC ==
    /\ pc = "m_from"
    /\ UNCHANGED auxVars
    /\ acquired' = Acquire("hdc_src")
    /\ valid' = [valid EXCEPT !["hdc_src"] = TRUE]
    /\ events' = Append(events, Ev("GetWindowDC", TRUE))
    /\ pc' = "m_dc"
    /\ UNCHANGED <<entry, os_major_version, overflow_checks, width, height,
                   released, selected, previous_object, is_success,
                   buffer_size, buffer_len, result>>

\* let box_hdc_mem = BoxHDC::new(CreateCompatibleDC(..), None);
\* capture.rs does not test the returned handle; what a null handle does is
\* decided by BoxHDC::new
MonitorCreateCompatibleDC ==
    /\ pc = "m_dc"
    /\ UNCHANGED auxVars
    /\ \E ok \in BOOLEAN :
        IF ~ok /\ NullHandleIsFatal
        THEN /\ events' = Append(events, Ev("CreateCompatibleDC", FALSE))
                            \o DropEvents(CreateDcFatalDrops)
             /\ released' = DropCounts(released, CreateDcFatalDrops)
             /\ result' = "panic"
             /\ pc' = "done"
             /\ UNCHANGED <<valid, selected, acquired>>
        ELSE /\ valid' = [valid EXCEPT !["hdc_mem"] = ok]
             /\ events' = Append(events, Ev("CreateCompatibleDC", ok))
             /\ selected' = IF ok THEN "default" ELSE "none"
             /\ acquired' = Acquire("hdc_mem")
             /\ pc' = "m_bmp"
             /\ UNCHANGED <<released, result>>
    /\ UNCHANGED <<entry, os_major_version, overflow_checks, width, height,
                   previous_object, is_success, buffer_size, buffer_len>>

\* let box_h_bitmap = BoxHBITMAP::new(CreateCompatibleBitmap(.., width, height));
MonitorCreateCompatibleBitmap ==
    /\ pc = "m_bmp"
    /\ UNCHANGED auxVars
    /\ \E ok \in BOOLEAN :
        IF ~ok /\ NullHandleIsFatal
        THEN /\ events' = Append(events, Ev("CreateCompatibleBitmap", FALSE))
                            \o DropEvents(CreateBitmapFatalDrops)
             /\ released' = DropCounts(released, CreateBitmapFatalDrops)
             /\ result' = "panic"
             /\ pc' = "done"
             /\ UNCHANGED <<valid, acquired>>
        ELSE /\ valid' = [valid EXCEPT !["h_bitmap"] = ok]
             /\ events' = Append(events, Ev("CreateCompatibleBitmap", ok))
             /\ acquired' = Acquire("h_bitmap")
             /\ pc' = "m_sel"
             /\ UNCHANGED <<released, result>>
    /\ UNCHANGED <<entry, os_major_version, overflow_checks, width, height,
                   selected, previous_object, is_success,
                   buffer_size, buffer_len>>

\* SelectObject(*box_hdc_mem, *box_h_bitmap);  the return value (the object
\* selected before) is discarded
MonitorSelectObject ==
    /\ pc = "m_sel"
    /\ UNCHANGED auxVars
    /\ LET ok == valid["hdc_mem"] /\ valid["h_bitmap"] IN
        /\ selected' = IF ok THEN "bitmap" ELSE selected
        /\ events' = Append(events, Ev("SelectObject", ok))
    /\ pc' = "m_blt"
    /\ UNCHANGED <<entry, os_major_version, overflow_checks, width, height,
                   acquired, released, valid, previous_object, is_success,
                   buffer_size, buffer_len, result>>

\* faulty variant: the blit's error is ignored and the call goes on
BlitNext_IgnoreError(ok) == "g_size"

\* where `BitBlt(..)?` leads: an error leaves inner_capture_monitor (and, by
\* the `?` in the entry point, the call); success goes on to extraction
BlitNext(ok) == IF ok THEN "g_size" ELSE "done"

\* BitBlt(..)?;  Ok((box_hdc_mem, box_h_bitmap))
\* On Err the three boxes are dropped in reverse declaration order; on Ok
\* box_hdc_mem and box_h_bitmap move to the caller and only
\* box_hdc_desktop_window is dropped.
MonitorBitBlt ==
    /\ pc = "m_blt"
    /\ UNCHANGED auxVars
    /\ \E ok \in DrawOutcomes :
        LET next == BlitNext(ok) IN
        /\ pc' = next
        /\ IF next = "g_size"
           THEN /\ events' = Append(events, Ev("BitBlt", ok))
                               \o DropEvents(InnerMonitorOkDrops)
                /\ released' = DropCounts(released, InnerMonitorOkDrops)
                /\ result' = result
           ELSE /\ events' = Append(events, Ev("BitBlt", ok))
                               \o DropEvents(InnerMonitorErrDrops)
                /\ released' = DropCounts(released, InnerMonitorErrDrops)
                /\ result' = "err"
    /\ UNCHANGED <<entry, os_major_version, overflow_checks, width, height,
                   acquired, valid, selected, previous_object, is_success,
                   buffer_size, buffer_len>>

----------------------------------------------------------------------------
(* inne_capture_window *)

\* A caller invokes capture_window / capture_window_bgra_data(hwnd, scale)
CallWindow ==
    /\ pc = "idle"
    /\ UNCHANGED auxVars
    /\ \E e \in WindowEntries : entry' = e
    /\ pc' = "w_from"
    /\ width' = 0
    /\ height' = 0
    /\ acquired' = ZeroCounts
    /\ released' = ZeroCounts
    /\ valid' = [h \in Handles |-> FALSE]
    /\ selected' = "none"
    /\ previous_object' = "none"
    /\ is_success' = FALSE
    /\ buffer_size' = 0
    /\ buffer_len' = 0
    /\ result' = "none"
    /\ events' = <<>>
    /\ UNCHANGED <<os_major_version, overflow_checks>>

\* let box_hdc_window: BoxHDC = BoxHDC::from(hwnd);
WindowGetDC ==
    /\ pc = "w_from"
    /\ UNCHANGED auxVars
    /\ acquired' = Acquire("hdc_src")
    /\ valid' = [valid EXCEPT !["hdc_src"] = TRUE]
    /\ events' = Append(events, Ev("GetWindowDC", TRUE))
    /\ pc' = "w_rect"
    /\ UNCHANGED <<entry, os_major_version, overflow_checks, width, height,
                   released, selected, previous_object, is_success,
                   buffer_size, buffer_len, result>>

\* let rect = get_window_rect(hwnd)?;  width/height = rect side scaled by
\* scale_factor.  GetCurrentObject/GetObjectW (lines 164-178) change nothing.
WindowGetRect ==
    /\ pc = "w_rect"
    /\ UNCHANGED auxVars
    /\ \/ /\ events' = Append(events, Ev("get_window_rect", FALSE))
                         \o DropEvents(WindowRectErrDrops)
          /\ released' = DropCounts(released, WindowRectErrDrops)
          /\ result' = "err"
          /\ pc' = "done"
          /\ UNCHANGED <<width, height>>
       \/ /\ \E rw \in RectDims, rh \in RectDims, s \in ScaleFactors :
                /\ width' = ScaleDim(rw, s)
                /\ height' = ScaleDim(rh, s)
                /\ events' = Append(events,
                                    [op |-> "get_window_rect", ok |-> TRUE,
                                     rw |-> rw, rh |-> rh, scale |-> s])
          /\ pc' = "w_dc"
          /\ UNCHANGED <<released, result>>
    /\ UNCHANGED <<entry, os_major_version, overflow_checks,
                   acquired, valid, selected, previous_object, is_success,
                   buffer_size, buffer_len>>

\* let box_hdc_mem = BoxHDC::new(CreateCompatibleDC(*box_hdc_window), None);
WindowCreateCompatibleDC ==
    /\ pc = "w_dc"
    /\ UNCHANGED auxVars
    /\ \E ok \in BOOLEAN :
        IF ~ok /\ NullHandleIsFatal
        THEN /\ events' = Append(events, Ev("CreateCompatibleDC", FALSE))
                            \o DropEvents(CreateDcFatalDrops)
             /\ released' = DropCounts(released, CreateDcFatalDrops)
             /\ result' = "panic"
             /\ pc' = "done"
             /\ UNCHANGED <<valid, selected, acquired>>
        ELSE /\ valid' = [valid EXCEPT !["hdc_mem"] = ok]
             /\ events' = Append(events, Ev("CreateCompatibleDC", ok))
             /\ selected' = IF ok THEN "default" ELSE "none"
             /\ acquired' = Acquire("hdc_mem")
             /\ pc' = "w_bmp"
             /\ UNCHANGED <<released, result>>
    /\ UNCHANGED <<entry, os_major_version, overflow_checks, width, height,
                   previous_object, is_success, buffer_size, buffer_len>>

\* let box_h_bitmap = BoxHBITMAP::new(CreateCompatibleBitmap(.., width, height));
WindowCreateCompatibleBitmap ==
    /\ pc = "w_bmp"
    /\ UNCHANGED auxVars
    /\ \E ok \in BOOLEAN :
        IF ~ok /\ NullHandleIsFatal
        THEN /\ events' = Append(events, EvDim("CreateCompatibleBitmap", FALSE, width, height))
                            \o DropEvents(CreateBitmapFatalDrops)
             /\ released' = DropCounts(released, CreateBitmapFatalDrops)
             /\ result' = "panic"
             /\ pc' = "done"
             /\ UNCHANGED <<valid, acquired>>
        ELSE /\ valid' = [valid EXCEPT !["h_bitmap"] = ok]
             /\ events' = Append(events, EvDim("CreateCompatibleBitmap", ok, width, height))
             /\ acquired' = Acquire("h_bitmap")
             /\ pc' = "w_sel"
             /\ UNCHANGED <<released, result>>
    /\ UNCHANGED <<entry, os_major_version, overflow_checks, width, height,
                   selected, previous_object, is_success,
                   buffer_size, buffer_len>>

\* let previous_object = SelectObject(*box_hdc_mem, *box_h_bitmap);
\* let mut is_success = false;
WindowSelectObject ==
    /\ pc = "w_sel"
    /\ UNCHANGED auxVars
    /\ LET ok == valid["hdc_mem"] /\ valid["h_bitmap"] IN
        /\ selected' = IF ok THEN "bitmap" ELSE selected
        /\ previous_object' = IF ok THEN selected ELSE "null"
        /\ events' = Append(events, Ev("SelectObject", ok))
    /\ is_success' = FALSE
    /\ pc' = "w_t1"
    /\ UNCHANGED <<entry, os_major_version, overflow_checks, width, height,
                   acquired, released, valid,
                   buffer_size, buffer_len, result>>

\* faulty variant: Tier 1 attempted whatever the platform version
Tier1Gate_Always == TRUE

\* faulty variant: every tier attempted even after a success
TierNeeded_Always == TRUE

\* if get_os_major_version() >= 8
Tier1Gate == os_major_version >= 8

\* if !is_success   (guards of Tier 2's query, Tier 3 and Tier 4)
TierNeeded == ~is_success

\* Tier 1: is_success = PrintWindow(hwnd, *box_hdc_mem, PRINT_WINDOW_FLAGS(2))
WindowTier1 ==
    /\ pc = "w_t1"
    /\ UNCHANGED auxVars
    /\ IF Tier1Gate
       THEN \E ok \in DrawOutcomes :
                /\ is_success' = ok
                /\ events' = Append(events, Ev("Tier1", ok))
       ELSE UNCHANGED <<is_success, events>>
    /\ pc' = "w_query"
    /\ UNCHANGED <<entry, os_major_version, overflow_checks, width, height,
                   acquired, released, valid, selected, previous_object,
                   buffer_size, buffer_len, result>>

\* faulty variant: a failed query treated as "composition disabled"
QueryNext_FailureAsDisabled(ok, enabled) ==
    IF ok /\ enabled THEN "w_t2" ELSE "w_t3"

\* faulty variant: Tier 2 entered whatever the query answered
QueryNext_IgnoreAnswer(ok, enabled) == IF ~ok THEN "done" ELSE "w_t2"

\* where `!is_success && DwmIsCompositionEnabled()?.as_bool()` leads:
\* a failed query leaves the function through `?`, an enabled composition
\* enters Tier 2, a disabled one goes on to Tier 3
QueryNext(ok, enabled) ==
    IF ~ok THEN "done" ELSE IF enabled THEN "w_t2" ELSE "w_t3"

\* outcomes of DwmIsCompositionEnabled(): Err, Ok(false), Ok(true)
QueryOutcomes ==
    {[op |-> "DwmIsCompositionEnabled", ok |-> FALSE, enabled |-> FALSE],
     [op |-> "DwmIsCompositionEnabled", ok |-> TRUE, enabled |-> FALSE],
     [op |-> "DwmIsCompositionEnabled", ok |-> TRUE, enabled |-> TRUE]}

\* if !is_success && DwmIsCompositionEnabled()?.as_bool()
\* the query is issued only when is_success is false; when it fails the
\* function returns the error at once, dropping its three boxes
WindowCompositionQuery ==
    /\ pc = "w_query"
    /\ UNCHANGED auxVars
    /\ IF TierNeeded
       THEN \E q \in QueryOutcomes :
                LET next == QueryNext(q.ok, q.enabled) IN
                /\ pc' = next
                /\ IF next = "done"
                   THEN /\ events' = Append(events, q)
                                       \o DropEvents(WindowQueryErrDrops)
                        /\ released' = DropCounts(released, WindowQueryErrDrops)
                        /\ result' = "err"
                   ELSE /\ events' = Append(events, q)
                        /\ UNCHANGED <<released, result>>
       ELSE /\ pc' = "w_t3"
            /\ UNCHANGED <<events, released, result>>
    /\ UNCHANGED <<entry, os_major_version, overflow_checks, width, height,
                   acquired, valid, selected, previous_object, is_success,
                   buffer_size, buffer_len>>

\* Tier 2: is_success = PrintWindow(hwnd, *box_hdc_mem, PRINT_WINDOW_FLAGS(0))
WindowTier2 ==
    /\ pc = "w_t2"
    /\ UNCHANGED auxVars
    /\ \E ok \in DrawOutcomes :
        /\ is_success' = ok
        /\ events' = Append(events, Ev("Tier2", ok))
    /\ pc' = "w_t3"
    /\ UNCHANGED <<entry, os_major_version, overflow_checks, width, height,
                   acquired, released, valid, selected, previous_object,
                   buffer_size, buffer_len, result>>

\* Tier 3: if !is_success { is_success = PrintWindow(.., PRINT_WINDOW_FLAGS(3)) }
WindowTier3 ==
    /\ pc = "w_t3"
    /\ UNCHANGED auxVars
    /\ IF TierNeeded
       THEN \E ok \in DrawOutcomes :
                /\ is_success' = ok
                /\ events' = Append(events, Ev("Tier3", ok))
       ELSE UNCHANGED <<is_success, events>>
    /\ pc' = "w_t4"
    /\ UNCHANGED <<entry, os_major_version, overflow_checks, width, height,
                   acquired, released, valid, selected, previous_object,
                   buffer_size, buffer_len, result>>

\* Tier 4: if !is_success { is_success = BitBlt(*box_hdc_mem, 0, 0, width,
\* height, *box_hdc_window, 0, 0, SRCCOPY).is_ok() }
WindowTier4 ==
    /\ pc = "w_t4"
    /\ UNCHANGED auxVars
    /\ IF TierNeeded
       THEN \E ok \in DrawOutcomes :
                /\ is_success' = ok
                /\ events' = Append(events, EvDim("Tier4", ok, width, height))
       ELSE UNCHANGED <<is_success, events>>
    /\ pc' = "w_restore"
    /\ UNCHANGED <<entry, os_major_version, overflow_checks, width, height,
                   acquired, released, valid, selected, previous_object,
                   buffer_size, buffer_len, result>>

\* SelectObject(*box_hdc_mem, previous_object);
WindowRestoreObject ==
    /\ pc = "w_restore"
    /\ UNCHANGED auxVars
    /\ LET ok == valid["hdc_mem"] /\ previous_object # "null" IN
        /\ selected' = IF ok THEN previous_object ELSE selected
        /\ events' = Append(events, Ev("RestoreObject", ok))
    /\ pc' = "w_ret"
    /\ UNCHANGED <<entry, os_major_version, overflow_checks, width, height,
                   acquired, released, valid, previous_object, is_success,
                   buffer_size, buffer_len, result>>

\* Ok((width, height, box_hdc_mem, box_h_bitmap))
\* is_success is not consulted: the function returns Ok whatever the tiers
\* reported; box_hdc_window is dropped, the other two boxes move to the caller
WindowReturn ==
    /\ pc = "w_ret"
    /\ UNCHANGED auxVars
    /\ events' = events \o DropEvents(InnerWindowOkDrops)
    /\ released' = DropCounts(released, InnerWindowOkDrops)
    /\ pc' = "g_size"
    /\ UNCHANGED <<entry, os_major_version, overflow_checks, width, height,
                   acquired, valid, selected, previous_object, is_success,
                   buffer_size, buffer_len, result>>

----------------------------------------------------------------------------
(* get_bgra_image_data and to_rgba_image *)

\* let buffer_size = width * height * 4;
\* let mut buffer = vec![0u8; buffer_size as usize];
\* An overflowing product panics in a build with overflow checks and wraps
\* otherwise; a negative buffer_size cast to usize exceeds any allocation and
\* panics.  A panic unwinds through the function, dropping its parameters.
GetBgraAllocate ==
    /\ pc = "g_size"
    /\ UNCHANGED auxVars
    /\ LET size == BufferSizeWrapped(width, height)
           panics == (SizeOverflows(width, height) /\ overflow_checks)
                     \/ size < 0
       IN  IF panics
           THEN /\ events' = Append(events, Ev("panic", FALSE))
                               \o DropEvents(GetBgraDrops)
                /\ released' = DropCounts(released, GetBgraDrops)
                /\ result' = "panic"
                /\ pc' = "done"
                /\ UNCHANGED buffer_size
           ELSE /\ buffer_size' = size
                /\ pc' = "g_dib"
                /\ UNCHANGED <<events, released, result>>
    /\ UNCHANGED <<entry, os_major_version, overflow_checks, width, height,
                   acquired, valid, selected, previous_object, is_success,
                   buffer_len>>

\* number of rows GetDIBits may report: 0 (failure), fewer than asked for,
\* or height; it cannot
\* read a null bitmap or through a null DC
DibOutcomes ==
    IF valid["hdc_mem"] /\ valid["h_bitmap"] THEN {0, 1, height} ELSE {0}

\* get_bgra_image_data fails when GetDIBits(..) == 0
ExtractionFails(rows) == rows = 0

\* GetDIBits(..) == 0 => Err("Get RGBA data failed"), else Ok(buffer).
\* Either way the parameters box_h_bitmap, box_hdc_mem are dropped on return.
\* capture_*_bgra_data return this result; to_rgba_image continues on Ok.
GetBgraGetDIBits ==
    /\ pc = "g_dib"
    /\ UNCHANGED auxVars
    /\ \E rows \in DibOutcomes :
        /\ events' = Append(events,
                            [op |-> "GetDIBits", ok |-> ~ExtractionFails(rows),
                             w |-> width, h |-> height, rows |-> rows])
                       \o DropEvents(GetBgraDrops)
        /\ IF ExtractionFails(rows)
           THEN /\ result' = "err"
                /\ pc' = "done"
                /\ UNCHANGED buffer_len
           ELSE /\ buffer_len' = buffer_size
                /\ IF entry \in RawEntries
                   THEN /\ result' = "ok"
                        /\ pc' = "done"
                   ELSE /\ result' = result
                        /\ pc' = "t_norm"
    /\ released' = DropCounts(released, GetBgraDrops)
    /\ UNCHANGED <<entry, os_major_version, overflow_checks, width, height,
                   acquired, valid, selected, previous_object, is_success,
                   buffer_size>>

\* to_rgba_image: the per-pixel loop keeps the buffer's length;
\* RgbaImage::from_raw(width as u32, height as u32, buffer) is None when the
\* buffer is shorter than width*height*4
ToRgbaImage ==
    /\ pc = "t_norm"
    /\ UNCHANGED auxVars
    /\ LET ok == FitsIn(buffer_len, width, height) IN
        /\ events' = Append(events, EvDim("from_raw", ok, width, height))
        /\ result' = IF ok THEN "ok" ELSE "err"
    /\ pc' = "done"
    /\ UNCHANGED <<entry, os_major_version, overflow_checks, width, height,
                   acquired, released, valid, selected, previous_object,
                   is_success, buffer_size, buffer_len>>

\* the call has returned to its caller; the next call may start
Finish ==
    /\ pc = "done"
    /\ UNCHANGED auxVars
    /\ pc' = "idle"
    /\ UNCHANGED <<entry, os_major_version, overflow_checks, width, height,
                   acquired, released, valid, selected, previous_object,
                   is_success, buffer_size, buffer_len, result, events>>

Next ==
    \/ CallMonitor
    \/ MonitorGetDC
    \/ MonitorCreateCompatibleDC
    \/ MonitorCreateCompatibleBitmap
    \/ MonitorSelectObject
    \/ MonitorBitBlt
    \/ CallWindow
    \/ WindowGetDC
    \/ WindowGetRect
    \/ WindowCreateCompatibleDC
    \/ WindowCreateCompatibleBitmap
    \/ WindowSelectObject
    \/ WindowTier1
    \/ WindowCompositionQuery
    \/ WindowTier2
    \/ WindowTier3
    \/ WindowTier4
    \/ WindowRestoreObject
    \/ WindowReturn
    \/ GetBgraAllocate
    \/ GetBgraGetDIBits
    \/ ToRgbaImage
    \/ Finish

Spec == Init /\ [][Next]_vars

----------------------------------------------------------------------------
(* to_rgba_image, pixel by pixel *)

\* state of the capture call
callVars == <<pc, entry, os_major_version, overflow_checks, width, height,
              acquired, released, valid, selected, previous_object,
              is_success, buffer_size, buffer_len, result, events>>

MaxPixels == 2

\* sample values of the colour bytes and of the alpha byte
ColorBytes == {0, 255}

AlphaBytes == {0, 1, 255}

\* one native pixel: bytes 0..3 = blue, green, red, alpha
NativePixels ==
    {<<b, g, r, a>> : b \in ColorBytes, g \in ColorBytes,
                      r \in ColorBytes, a \in AlphaBytes}

\* the bytes of the pixels ps[1..n], in order
RECURSIVE Flatten(_, _)
Flatten(ps, n) == IF n = 0 THEN <<>> ELSE Flatten(ps, n - 1) \o ps[n]

\* buffers returned by get_bgra_image_data: width*height pixels of 4 bytes
NativeBuffers ==
    UNION {{Flatten(ps, n) : ps \in [1..n -> NativePixels]} : n \in 1..MaxPixels}

\* faulty variant: green and blue exchanged instead of blue and red
SwapChannels_Wrong(px) == <<px[1], px[3], px[2], px[4]>>

\* src.swap(0, 2);
SwapChannels(px) == <<px[3], px[2], px[1], px[4]>>

\* faulty variant: the correction applied on every platform version
AlphaFix_AnyVersion(a, ver) == IF a = 0 THEN 255 ELSE a

\* if src[3] == 0 && os_major_version < 8 { src[3] = 255; }
AlphaFix(a, ver) == IF a = 0 /\ ver < 8 THEN 255 ELSE a

\* the body of `for src in buffer.chunks_exact_mut(4)` applied to one chunk
NormalizeChunk(px, ver) ==
    LET sw == SwapChannels(px)
    IN  <<sw[1], sw[2], sw[3], AlphaFix(sw[4], ver)>>

\* chunk c (1-based) of buffer buf
Chunk(buf, c) == SubSeq(buf, 4 * c - 3, 4 * c)

\* buf with chunk c replaced by px
WithChunk(buf, c, px) ==
    [k \in DOMAIN buf |->
        IF k >= 4 * c - 3 /\ k <= 4 * c THEN px[k - (4 * c - 4)] ELSE buf[k]]

\* number of chunks chunks_exact_mut(4) yields
NumChunks(buf) == Len(buf) \div 4

\* to_rgba_image has obtained `buffer` from get_bgra_image_data and has read
\* os_major_version; the loop is about to start
InitNorm ==
    /\ InitCall
    /\ ConcIdle
    /\ native \in NativeBuffers
    /\ image = native
    /\ norm_i = 1
    /\ norm_pc = "loop"

\* one iteration of the loop: the chunk is converted in place
NormChunk ==
    /\ norm_pc = "loop"
    /\ norm_i <= NumChunks(image)
    /\ image' = WithChunk(image, norm_i,
                          NormalizeChunk(Chunk(image, norm_i), os_major_version))
    /\ norm_i' = norm_i + 1
    /\ UNCHANGED <<native, norm_pc>>
    /\ UNCHANGED <<callVars, concVars>>

\* the iterator is exhausted: the buffer goes to RgbaImage::from_raw
NormFinish ==
    /\ norm_pc = "loop"
    /\ norm_i > NumChunks(image)
    /\ norm_pc' = "done"
    /\ UNCHANGED <<native, image, norm_i>>
    /\ UNCHANGED <<callVars, concVars>>

NextNorm == NormChunk \/ NormFinish

SpecNorm == InitNorm /\ [][NextNorm]_vars

----------------------------------------------------------------------------
(* Capture calls running on several threads *)

(* Each thread runs one capture call at a time; the steps of different     *)
(* threads interleave.  thr[t] holds the locals of thread t's call: mem is  *)
(* box_hdc_mem, bmp is box_h_bitmap (0 = none or null), succ is is_success. *)
(* Every successful creation yields a new native object, numbered from     *)
(* next_handle.  `created` and `used` record which call created and which  *)
(* call passed each off-screen object to a native operation.               *)

MaxCalls == 2

CallKinds == {"monitor", "window"}

\* faulty variant: every call draws into the off-screen DC of thread 1, as
\* if the DC were kept in one process-wide slot
TargetDC_Shared(t) == thr[1].mem

\* *box_hdc_mem: the local of the call running on thread t
TargetDC(t) == thr[t].mem

\* *box_h_bitmap: the local of the call running on thread t
TargetBitmap(t) == thr[t].bmp

\* the call on thread t passes the objects hs to a native operation
UseOf(t, hs) == used \cup {<<h, thr[t].call>> : h \in hs \ {0}}

\* dropping the call's boxes releases mem and bmp
ReleaseOf(t) == UseOf(t, {thr[t].mem, thr[t].bmp})

\* a capture entry point is called on thread t; the source drawing surface
\* is obtained (BoxHDC::from)
ConcCall(t) ==
    /\ thr[t].pc = "idle"
    /\ calls_started < MaxCalls
    /\ \E k \in CallKinds :
        thr' = [thr EXCEPT ![t] =
                   [pc |-> IF k = "monitor" THEN "dc" ELSE "rect",
                    kind |-> k, call |-> calls_started + 1,
                    mem |-> 0, bmp |-> 0, succ |-> FALSE]]
    /\ calls_started' = calls_started + 1
    /\ UNCHANGED <<created, used, next_handle>>
    /\ UNCHANGED <<callVars, normVars>>

\* let rect = get_window_rect(hwnd)?;
ConcGetRect(t) ==
    /\ thr[t].pc = "rect"
    /\ \E ok \in BOOLEAN :
        thr' = [thr EXCEPT ![t].pc = IF ok THEN "dc" ELSE "done"]
    /\ UNCHANGED <<created, used, next_handle, calls_started>>
    /\ UNCHANGED <<callVars, normVars>>

\* let box_hdc_mem = BoxHDC::new(CreateCompatibleDC(..), None);
ConcCreateDC(t) ==
    /\ thr[t].pc = "dc"
    /\ \E ok \in BOOLEAN :
        IF ok
        THEN /\ thr' = [thr EXCEPT ![t].mem = next_handle, ![t].pc = "bmp"]
             /\ created' = created \cup {<<next_handle, thr[t].call>>}
             /\ next_handle' = next_handle + 1
        ELSE /\ thr' = [thr EXCEPT ![t].pc =
                           IF NullHandleIsFatal THEN "done" ELSE "bmp"]
             /\ UNCHANGED <<created, next_handle>>
    /\ UNCHANGED <<used, calls_started>>
    /\ UNCHANGED <<callVars, normVars>>

\* let box_h_bitmap = BoxHBITMAP::new(CreateCompatibleBitmap(..));
ConcCreateBitmap(t) ==
    /\ thr[t].pc = "bmp"
    /\ \E ok \in BOOLEAN :
        IF ok
        THEN /\ thr' = [thr EXCEPT ![t].bmp = next_handle, ![t].pc = "sel"]
             /\ created' = created \cup {<<next_handle, thr[t].call>>}
             /\ next_handle' = next_handle + 1
             /\ used' = used
        ELSE /\ thr' = [thr EXCEPT ![t].pc =
                           IF NullHandleIsFatal THEN "done" ELSE "sel"]
             /\ used' = IF NullHandleIsFatal THEN ReleaseOf(t) ELSE used
             /\ UNCHANGED <<created, next_handle>>
    /\ UNCHANGED calls_started
    /\ UNCHANGED <<callVars, normVars>>

\* SelectObject(*box_hdc_mem, *box_h_bitmap)
ConcSelectObject(t) ==
    /\ thr[t].pc = "sel"
    /\ used' = UseOf(t, {TargetDC(t), TargetBitmap(t)})
    /\ thr' = [thr EXCEPT ![t].pc =
                  IF thr[t].kind = "monitor" THEN "blt" ELSE "t1"]
    /\ UNCHANGED <<created, next_handle, calls_started>>
    /\ UNCHANGED <<callVars, normVars>>

\* inner_capture_monitor: BitBlt(*box_hdc_mem, ..)?
ConcMonitorBitBlt(t) ==
    /\ thr[t].pc = "blt"
    /\ \E ok \in BOOLEAN :
        /\ thr' = [thr EXCEPT ![t].pc = IF ok THEN "ext" ELSE "done"]
        /\ used' = IF ok THEN UseOf(t, {TargetDC(t)})
                   ELSE UseOf(t, {TargetDC(t)}) \cup ReleaseOf(t)
    /\ UNCHANGED <<created, next_handle, calls_started>>
    /\ UNCHANGED <<callVars, normVars>>

\* Tier 1: PrintWindow(hwnd, *box_hdc_mem, PRINT_WINDOW_FLAGS(2))
ConcTier1(t) ==
    /\ thr[t].pc = "t1"
    /\ IF Tier1Gate
       THEN \E ok \in BOOLEAN :
                /\ thr' = [thr EXCEPT ![t].succ = ok, ![t].pc = "query"]
                /\ used' = UseOf(t, {TargetDC(t)})
       ELSE /\ thr' = [thr EXCEPT ![t].pc = "query"]
            /\ used' = used
    /\ UNCHANGED <<created, next_handle, calls_started>>
    /\ UNCHANGED <<callVars, normVars>>

\* if !is_success && DwmIsCompositionEnabled()?.as_bool()
ConcCompositionQuery(t) ==
    /\ thr[t].pc = "query"
    /\ IF ~thr[t].succ
       THEN \E q \in QueryOutcomes :
                LET next == QueryNext(q.ok, q.enabled) IN
                /\ thr' = [thr EXCEPT ![t].pc =
                              IF next = "done" THEN "done"
                              ELSE IF next = "w_t2" THEN "t2" ELSE "t3"]
                /\ used' = IF next = "done" THEN ReleaseOf(t) ELSE used
       ELSE /\ thr' = [thr EXCEPT ![t].pc = "t3"]
            /\ used' = used
    /\ UNCHANGED <<created, next_handle, calls_started>>
    /\ UNCHANGED <<callVars, normVars>>

\* Tier 2: PrintWindow(hwnd, *box_hdc_mem, PRINT_WINDOW_FLAGS(0))
ConcTier2(t) ==
    /\ thr[t].pc = "t2"
    /\ \E ok \in BOOLEAN :
        thr' = [thr EXCEPT ![t].succ = ok, ![t].pc = "t3"]
    /\ used' = UseOf(t, {TargetDC(t)})
    /\ UNCHANGED <<created, next_handle, calls_started>>
    /\ UNCHANGED <<callVars, normVars>>

\* Tier 3: PrintWindow(hwnd, *box_hdc_mem, PRINT_WINDOW_FLAGS(3))
ConcTier3(t) ==
    /\ thr[t].pc = "t3"
    /\ IF ~thr[t].succ
       THEN \E ok \in BOOLEAN :
                /\ thr' = [thr EXCEPT ![t].succ = ok, ![t].pc = "t4"]
                /\ used' = UseOf(t, {TargetDC(t)})
       ELSE /\ thr' = [thr EXCEPT ![t].pc = "t4"]
            /\ used' = used
    /\ UNCHANGED <<created, next_handle, calls_started>>
    /\ UNCHANGED <<callVars, normVars>>

\* Tier 4: BitBlt(*box_hdc_mem, .., *box_hdc_window, ..)
ConcTier4(t) ==
    /\ thr[t].pc = "t4"
    /\ IF ~thr[t].succ
       THEN \E ok \in BOOLEAN :
                /\ thr' = [thr EXCEPT ![t].succ = ok, ![t].pc = "restore"]
                /\ used' = UseOf(t, {TargetDC(t)})
       ELSE /\ thr' = [thr EXCEPT ![t].pc = "restore"]
            /\ used' = used
    /\ UNCHANGED <<created, next_handle, calls_started>>
    /\ UNCHANGED <<callVars, normVars>>

\* SelectObject(*box_hdc_mem, previous_object); Ok(..)
ConcRestoreObject(t) ==
    /\ thr[t].pc = "restore"
    /\ used' = UseOf(t, {TargetDC(t)})
    /\ thr' = [thr EXCEPT ![t].pc = "ext"]
    /\ UNCHANGED <<created, next_handle, calls_started>>
    /\ UNCHANGED <<callVars, normVars>>

\* get_bgra_image_data: GetDIBits(*box_hdc_mem, *box_h_bitmap, ..), then
\* its parameters are dropped
ConcGetDIBits(t) ==
    /\ thr[t].pc = "ext"
    /\ used' = UseOf(t, {TargetDC(t), TargetBitmap(t)}) \cup ReleaseOf(t)
    /\ thr' = [thr EXCEPT ![t].pc = "done"]
    /\ UNCHANGED <<created, next_handle, calls_started>>
    /\ UNCHANGED <<callVars, normVars>>

\* the entry point returns; the call's locals are gone
ConcReturn(t) ==
    /\ thr[t].pc = "done"
    /\ thr' = [thr EXCEPT ![t] = IdleThread]
    /\ UNCHANGED <<created, used, next_handle, calls_started>>
    /\ UNCHANGED <<callVars, normVars>>

NextConc ==
    \E t \in Threads :
        \/ ConcCall(t)
        \/ ConcGetRect(t)
        \/ ConcCreateDC(t)
        \/ ConcCreateBitmap(t)
        \/ ConcSelectObject(t)
        \/ ConcMonitorBitBlt(t)
        \/ ConcTier1(t)
        \/ ConcCompositionQuery(t)
        \/ ConcTier2(t)
        \/ ConcTier3(t)
        \/ ConcTier4(t)
        \/ ConcRestoreObject(t)
        \/ ConcGetDIBits(t)
        \/ ConcReturn(t)

SpecConc == Init /\ [][NextConc]_vars

----------------------------------------------------------------------------
(* Reading the event log *)

Tiers == <<"Tier1", "Tier2", "Tier3", "Tier4">>

EvIdx(op) == {i \in DOMAIN events : events[i].op = op}

Count(op) == Cardinality(EvIdx(op))

Happened(op) == EvIdx(op) # {}

Succeeded(op) == \E i \in EvIdx(op) : events[i].ok

Failed(op) == \E i \in EvIdx(op) : ~events[i].ok

IsTier(op) == \E k \in 1..4 : Tiers[k] = op

TierNo(op) == CHOOSE k \in 1..4 : Tiers[k] = op

InWindowCall == entry \in WindowEntries

InMonitorCall == entry \in MonitorEntries

Returned == pc = "done"

\* the composition query was issued and answered "enabled"
CompositionEnabled ==
    \E i \in EvIdx("DwmIsCompositionEnabled") :
        events[i].ok /\ events[i].enabled

QueryFailed == Failed("DwmIsCompositionEnabled")

----------------------------------------------------------------------------
(* Claims *)

\* C1: in a window capture the tiers are attempted only in the order
\* Tier 1, Tier 2, Tier 3, Tier 4, and once a tier has reported success no
\* later tier is attempted in that call.
C1_TierOrderStopAtSuccess ==
    \A i, j \in DOMAIN events :
        (i < j /\ IsTier(events[i].op) /\ IsTier(events[j].op))
            => /\ TierNo(events[i].op) < TierNo(events[j].op)
               /\ ~events[i].ok

\* C1 witness: Tier 1 failed, Tier 2 succeeded, and the call returned
\* without Tier 3 or Tier 4 having been attempted.
C1_Witness ==
    /\ Returned /\ InWindowCall
    /\ Failed("Tier1") /\ Succeeded("Tier2")
    /\ ~Happened("Tier3") /\ ~Happened("Tier4")

\* C2 (as claimed): if Tier k succeeds, each of Tiers 1..k-1 was attempted
\* exactly once and none of Tiers k+1..4 was attempted, for every platform
\* version and composition state.
C2_EarlierTiersEachAttemptedOnce ==
    \A k \in 1..4 :
        Succeeded(Tiers[k]) =>
            /\ \A j \in 1..(k - 1) : Count(Tiers[j]) = 1
            /\ \A j \in (k + 1)..4 : Count(Tiers[j]) = 0

\* the condition under which the code attempts Tier j once no earlier tier
\* has succeeded
TierGateHeld(j) ==
    CASE j = 1 -> os_major_version >= 8
      [] j = 2 -> CompositionEnabled
      [] OTHER -> TRUE

\* C2 (amended): if Tier k succeeds, each of Tiers 1..k-1 whose gate held
\* (Tier 1: platform major version >= 8; Tier 2: the composition query
\* answered enabled; Tier 3: none) was attempted exactly once, each earlier
\* tier whose gate did not hold was not attempted, and none of Tiers k+1..4
\* was attempted.
C2_GatedTiersAttemptedOnce ==
    \A k \in 1..4 :
        Succeeded(Tiers[k]) =>
            /\ \A j \in 1..(k - 1) :
                  Count(Tiers[j]) = IF TierGateHeld(j) THEN 1 ELSE 0
            /\ \A j \in (k + 1)..4 : Count(Tiers[j]) = 0

\* C2 witness: on a platform below version 8 Tier 1 was skipped, Tier 2 was
\* attempted and failed, Tier 3 succeeded, Tier 4 was not attempted.
C2_Witness ==
    /\ Returned /\ InWindowCall
    /\ os_major_version < 8
    /\ ~Happened("Tier1") /\ Failed("Tier2") /\ Succeeded("Tier3")
    /\ ~Happened("Tier4")

\* C3: a window capture call returns a successful result only if at least
\* one of the four tiers reported success.
C3_SuccessOnlyIfSomeTierSucceeded ==
    (Returned /\ InWindowCall /\ result = "ok")
        => \E k \in 1..4 : Succeeded(Tiers[k])

\* C4: on every exit path on which a capture call returns (Ok or Err), every
\* surface handle acquired during the call has been released exactly once:
\* acquisitions equal releases, and at no time has a handle been released
\* twice or without having been acquired.
C4_AcquiredReleasedExactlyOnce ==
    /\ \A h \in Handles :
          /\ released[h] <= acquired[h]
          /\ acquired[h] <= 1
          /\ Count("release_" \o h) = released[h]
    /\ (Returned /\ result \in {"ok", "err"})
          => \A h \in Handles : released[h] = acquired[h]

\* C4 witness: a window capture that left through the failed composition
\* query, with all three handles acquired once and released once.
C4_Witness ==
    /\ Returned /\ InWindowCall /\ QueryFailed
    /\ \A h \in Handles : acquired[h] = 1 /\ released[h] = 1

\* C5: in every window capture call in which the pixel surface was selected
\* into the off-screen drawing surface, the previously selected object is
\* restored exactly once, before the drawing surface is released, on every
\* exit path (composition query failure included).
C5_WindowRestoredOnceBeforeRelease ==
    (Returned /\ InWindowCall /\ Succeeded("SelectObject"))
        => /\ Count("RestoreObject") = 1
           /\ \A i \in EvIdx("RestoreObject"), j \in EvIdx("release_hdc_mem") :
                 i < j

\* C6: in every monitor capture call in which the pixel surface was selected,
\* the previously selected object is restored into the off-screen drawing
\* surface before that surface and the pixel surface are released.
C6_MonitorRestoredBeforeRelease ==
    (Returned /\ InMonitorCall /\ Succeeded("SelectObject"))
        => \E i \in EvIdx("RestoreObject") :
              \A j \in EvIdx("release_hdc_mem") \cup EvIdx("release_h_bitmap") :
                 i < j

\* phases of a capture call as the claim orders them: creation, selection,
\* blit/print, extraction, then restoration and release of the off-screen
\* surfaces (0: not ordered by the claim)
ClaimedPhase(op) ==
    CASE op \in {"CreateCompatibleDC", "CreateCompatibleBitmap"} -> 1
      [] op = "SelectObject" -> 2
      [] IsTier(op) \/ op = "BitBlt" -> 3
      [] op = "GetDIBits" -> 4
      [] op \in {"RestoreObject", "release_hdc_mem", "release_h_bitmap"} -> 5
      [] OTHER -> 0

\* phases as the code orders them: restoration comes before extraction
CodePhase(op) ==
    CASE op \in {"CreateCompatibleDC", "CreateCompatibleBitmap"} -> 1
      [] op = "SelectObject" -> 2
      [] IsTier(op) \/ op = "BitBlt" -> 3
      [] op = "RestoreObject" -> 4
      [] op = "GetDIBits" -> 5
      [] op \in {"release_hdc_mem", "release_h_bitmap"} -> 6
      [] OTHER -> 0

\* C7 (as claimed): within one capture call creation precedes selection,
\* which precedes every blit/print attempt, which precedes extraction, which
\* precedes restoration and release; extraction never follows restoration.
C7_ExtractionBeforeRestoration ==
    \A i, j \in DOMAIN events :
        (i < j /\ ClaimedPhase(events[i].op) > 0
               /\ ClaimedPhase(events[j].op) > 0)
            => ClaimedPhase(events[i].op) <= ClaimedPhase(events[j].op)

\* C7 (amended): within one capture call creation of the off-screen surfaces
\* precedes selection, which precedes every blit/print attempt, which
\* precedes the restoration of the previously selected object (when the call
\* performs one), which precedes extraction, which precedes the release of
\* the off-screen surfaces; in a window capture extraction happens only
\* after the restoration.
C7_RestorationBeforeExtraction ==
    /\ \A i, j \in DOMAIN events :
          (i < j /\ CodePhase(events[i].op) > 0 /\ CodePhase(events[j].op) > 0)
              => CodePhase(events[i].op) <= CodePhase(events[j].op)
    /\ (InWindowCall /\ Happened("GetDIBits")) => Happened("RestoreObject")

\* C7 witness: a window capture returned Ok after a restoration and a
\* successful extraction.
C7_Witness ==
    /\ Returned /\ InWindowCall /\ result = "ok"
    /\ Succeeded("RestoreObject") /\ Succeeded("GetDIBits")

\* C8: on every exit path the surfaces are released in the reverse of their
\* acquisition order: pixel surface, then off-screen drawing surface, then
\* the desktop/window drawing surface last.
C8_ReleasedInReverseAcquisitionOrder ==
    Returned =>
        /\ \A i \in EvIdx("release_h_bitmap"), j \in EvIdx("release_hdc_mem") :
              i < j
        /\ \A j \in EvIdx("release_hdc_mem"), k \in EvIdx("release_hdc_src") :
              j < k

\* C9: when the composition query is issued and fails, the capture call
\* fails: Tier 2, Tier 3 and Tier 4 are not attempted, no extraction is
\* performed and no pixel data is returned.
C9_QueryFailureFailsCall ==
    QueryFailed =>
        /\ pc \in {"done", "idle"}
        /\ result = "err"
        /\ ~Happened("Tier2") /\ ~Happened("Tier3") /\ ~Happened("Tier4")
        /\ ~Happened("GetDIBits")
        /\ ~Happened("from_raw")
        /\ buffer_len = 0

\* C9 witness: Tier 1 was attempted and failed, then the query failed and
\* the call returned.
C9_Witness ==
    /\ Returned /\ InWindowCall
    /\ Failed("Tier1") /\ QueryFailed

\* C10: for all width > 0, height > 0 a successful capture_monitor_bgra_data
\* returns a buffer of length exactly width*height*4 (the exact product).
C10_MonitorRawExactLength ==
    (Returned /\ entry = "capture_monitor_bgra_data" /\ result = "ok")
        => IsExactSize(buffer_len, width, height)

\* pixels of the buffer handed to to_rgba_image
PixelIdx == 1..NumChunks(native)

NormDone == norm_pc = "done"

\* C11: alpha correction: for every pixel, a native alpha of 0 becomes 255
\* when the platform major version is below 8; a native alpha in 1..255 is
\* kept on every platform version; on version 8 or above an alpha of 0
\* stays 0.
C11_AlphaCorrection ==
    NormDone =>
        \A p \in PixelIdx :
            LET a == native[4 * p]
                o == image[4 * p]
            IN  /\ (os_major_version < 8 /\ a = 0) => o = 255
                /\ (a >= 1 /\ a <= 255) => o = a
                /\ (os_major_version >= 8 /\ a = 0) => o = 0

\* C11 witness: on a platform below version 8 a converted buffer holds one
\* pixel whose alpha went from 0 to 255 and one whose alpha 1 was kept.
C11_Witness ==
    /\ NormDone /\ os_major_version < 8
    /\ \E p, q \in PixelIdx :
          /\ native[4 * p] = 0 /\ image[4 * p] = 255
          /\ native[4 * q] = 1 /\ image[4 * q] = 1

\* C12: channel reordering: output pixel i has red = native byte 2,
\* green = native byte 1, blue = native byte 0 of the same pixel i; the
\* number of pixels and their positions are unchanged.
C12_ChannelReorder ==
    NormDone =>
        /\ Len(image) = Len(native)
        /\ \A p \in PixelIdx :
              /\ image[4 * p - 3] = native[4 * p - 1]
              /\ image[4 * p - 2] = native[4 * p - 2]
              /\ image[4 * p - 1] = native[4 * p - 3]

\* C12 witness: a converted buffer of two different pixels, the first with
\* blue 255, green 0 and red 0 in the native order.
C12_Witness ==
    /\ NormDone /\ NumChunks(native) = 2
    /\ Chunk(native, 1) # Chunk(native, 2)
    /\ native[1] = 255 /\ native[2] = 0 /\ native[3] = 0
    /\ image[1] = 0 /\ image[3] = 255

\* v = floor(raw * scale), scale = s[1]/s[2], stated without division
IsFloorScaled(v, raw, s) ==
    /\ v * s[2] <= raw * s[1]
    /\ raw * s[1] < (v + 1) * s[2]

\* the calls of a window capture that are passed a width and a height:
\* pixel-surface creation, the Tier 4 blit, extraction, image construction
DimOps == {"CreateCompatibleBitmap", "Tier4", "GetDIBits", "from_raw"}

\* C13: in a window capture width and height are floor((right-left)*scale)
\* and floor((bottom-top)*scale) of the resolved rectangle (100x200 at scale
\* 1.0 and 50x100 at scale 0.5 for a 100x200 rectangle), and exactly these
\* two values are passed to pixel-surface creation, to the Tier 4 blit, to
\* extraction and to image construction.
C13_ScaledDimsUsedThroughout ==
    InWindowCall =>
        \A i \in EvIdx("get_window_rect") :
            events[i].ok =>
                LET e == events[i] IN
                /\ IsFloorScaled(width, e.rw, e.scale)
                /\ IsFloorScaled(height, e.rh, e.scale)
                /\ (e.rw = 100 /\ e.rh = 200 /\ e.scale = <<1, 1>>)
                      => (width = 100 /\ height = 200)
                /\ (e.rw = 100 /\ e.rh = 200 /\ e.scale = <<1, 2>>)
                      => (width = 50 /\ height = 100)
                /\ \A j \in DOMAIN events :
                      events[j].op \in DimOps
                          => (events[j].w = width /\ events[j].h = height)

\* C13 witness: capture_window of a 100x200 rectangle at scale 0.5 returned
\* Ok after the Tier 4 blit, extraction and image construction, the pixel
\* surface having been created 50x100.
C13_Witness ==
    /\ Returned /\ entry = "capture_window" /\ result = "ok"
    /\ \E i \in EvIdx("get_window_rect") :
          /\ events[i].ok
          /\ events[i].rw = 100 /\ events[i].rh = 200
          /\ events[i].scale = <<1, 2>>
    /\ \E i \in EvIdx("CreateCompatibleBitmap") :
          events[i].w = 50 /\ events[i].h = 100
    /\ Succeeded("Tier4") /\ Succeeded("GetDIBits") /\ Succeeded("from_raw")

\* an off-screen surface creation returned a null handle
CreationFailed ==
    Failed("CreateCompatibleDC") \/ Failed("CreateCompatibleBitmap")

IsBufferSize(len, w, h) ==
    IF w = 0 \/ h = 0 THEN len = 0 ELSE IsExactSize(len, w, h)

\* C15: get_bgra_image_data fails exactly when GetDIBits reports zero rows,
\* and then the entry point fails and returns no buffer; for any non-zero
\* row count it returns the buffer of length width*height*4.
C15_ExtractionFailsIffZeroRows ==
    \A i \in EvIdx("GetDIBits") :
        LET e == events[i] IN
        /\ e.rows = 0 =>
              (result = "err" /\ buffer_len = 0 /\ pc \in {"done", "idle"})
        /\ e.rows # 0 =>
              /\ IsBufferSize(buffer_len, e.w, e.h)
              /\ entry \in RawEntries => result = "ok"

\* C16: in a monitor capture, if the blit from the desktop surface reports
\* an error the call fails with an error, extraction and normalization are
\* never performed, and there is no fallback attempt: the blit is issued
\* exactly once per call.
C16_MonitorBlitFailureFailsCall ==
    InMonitorCall =>
        /\ Count("BitBlt") <= 1
        /\ \A k \in 1..4 : ~Happened(Tiers[k])
        /\ Failed("BitBlt") =>
              /\ pc \in {"done", "idle"}
              /\ result = "err"
              /\ ~Happened("GetDIBits")
              /\ ~Happened("from_raw")
              /\ buffer_len = 0
        /\ (Returned /\ result = "ok") => Count("BitBlt") = 1

\* C16 witness: capture_monitor returned after its single blit failed.
C16_Witness ==
    /\ Returned /\ entry = "capture_monitor"
    /\ Failed("BitBlt") /\ Count("BitBlt") = 1

\* a window capture that entered the tier chain and has returned
ChainEnteredAndReturned ==
    InWindowCall /\ Returned /\ Happened("SelectObject")

NoneSucceededBefore(k) == \A j \in 1..(k - 1) : ~Succeeded(Tiers[j])

\* C18 (as claimed): Tier 1 is attempted iff the platform major version is
\* at least 8; Tier 2 iff Tier 1 was skipped or failed and the composition
\* query answered enabled; Tier 3 iff no earlier tier succeeded; Tier 4 iff
\* no earlier tier succeeded; the query is not issued when Tier 1 succeeded.
C18_TierConditions ==
    ChainEnteredAndReturned =>
        /\ Happened("Tier1") <=> os_major_version >= 8
        /\ Happened("Tier2") <=> (NoneSucceededBefore(2) /\ CompositionEnabled)
        /\ Happened("Tier3") <=> NoneSucceededBefore(3)
        /\ Happened("Tier4") <=> NoneSucceededBefore(4)
        /\ Succeeded("Tier1") => ~Happened("DwmIsCompositionEnabled")

\* C18 (amended): as claimed, except that Tier 3 and Tier 4 are attempted
\* iff no earlier tier succeeded and the composition query did not fail: a
\* failed query ends the call before Tier 3.
C18_TierConditionsUnlessQueryFailed ==
    ChainEnteredAndReturned =>
        /\ Happened("Tier1") <=> os_major_version >= 8
        /\ Happened("Tier2") <=> (NoneSucceededBefore(2) /\ CompositionEnabled)
        /\ Happened("Tier3") <=> (NoneSucceededBefore(3) /\ ~QueryFailed)
        /\ Happened("Tier4") <=> (NoneSucceededBefore(4) /\ ~QueryFailed)
        /\ Succeeded("Tier1") => ~Happened("DwmIsCompositionEnabled")
        /\ Happened("DwmIsCompositionEnabled") <=> ~Succeeded("Tier1")

\* C18 witness: on version 8 or above Tier 1 failed, the query answered
\* "disabled", Tier 2 was skipped, Tier 3 failed and Tier 4 succeeded.
C18_Witness ==
    /\ ChainEnteredAndReturned /\ os_major_version >= 8
    /\ Failed("Tier1")
    /\ Succeeded("DwmIsCompositionEnabled") /\ ~CompositionEnabled
    /\ ~Happened("Tier2") /\ Failed("Tier3") /\ Succeeded("Tier4")

\* C19: if resolving the window rectangle fails, the call fails with that
\* error before any off-screen surface is created, no composition query is
\* issued, no tier is attempted, and the window drawing surface obtained
\* before is released.
C19_RectFailureFailsEarly ==
    Failed("get_window_rect") =>
        /\ pc \in {"done", "idle"}
        /\ result = "err"
        /\ ~Happened("CreateCompatibleDC")
        /\ ~Happened("CreateCompatibleBitmap")
        /\ ~Happened("SelectObject")
        /\ ~Happened("DwmIsCompositionEnabled")
        /\ \A k \in 1..4 : ~Happened(Tiers[k])
        /\ ~Happened("GetDIBits")
        /\ acquired = [ZeroCounts EXCEPT !["hdc_src"] = 1]
        /\ released = [ZeroCounts EXCEPT !["hdc_src"] = 1]
        /\ Count("release_hdc_src") = 1

\* C19 witness: capture_window returned after get_window_rect failed.
C19_Witness ==
    /\ Returned /\ entry = "capture_window"
    /\ Failed("get_window_rect")
    /\ released["hdc_src"] = 1

\* calls that are running
RunningThreads == {t \in Threads : thr[t].pc \notin {"idle", "done"}}

\* C17: for any interleaving of two concurrently running capture calls,
\* each call creates its own off-screen drawing surface and pixel surface,
\* every operation of a call targets only off-screen handles that the same
\* call created, and no off-screen handle is used by both calls.
C17_OffscreenHandlesNotShared ==
    /\ \A u \in used : u \in created
    /\ \A u, v \in used : u[1] = v[1] => u[2] = v[2]
    /\ \A c, d \in created : c[1] = d[1] => c[2] = d[2]
    /\ \A t \in Threads :
          /\ thr[t].mem # 0 => <<thr[t].mem, thr[t].call>> \in created
          /\ thr[t].bmp # 0 => <<thr[t].bmp, thr[t].call>> \in created
          /\ thr[t].bmp # 0 => thr[t].bmp # thr[t].mem
    /\ \A t, u \in Threads :
          (t # u /\ thr[t].mem # 0)
              => (thr[u].mem # thr[t].mem /\ thr[u].bmp # thr[t].mem)

\* C17 witness: a monitor capture and a window capture are both running,
\* both past their drawing steps, each having used the two surfaces it
\* created.
C17_Witness ==
    /\ RunningThreads = Threads
    /\ \E t, u \in Threads :
          /\ thr[t].kind = "monitor" /\ thr[u].kind = "window"
          /\ thr[t].pc = "ext" /\ thr[u].pc = "ext"
          /\ {<<thr[t].mem, thr[t].call>>, <<thr[t].bmp, thr[t].call>>,
              <<thr[u].mem, thr[u].call>>, <<thr[u].bmp, thr[u].call>>}
                \subseteq used

====
